---- MODULE Spec2Model ----
(***************************************************************************)
(* Streaming ingestion core of soccer-mind: the query page of              *)
(* src/app/page.tsx and its earlier version src/unnamed/part_000.          *)
(*                                                                         *)
(* A submitted query opens a fetch whose body is read chunk by chunk; the  *)
(* read loop reassembles lines, hands each "data: " payload to the record  *)
(* handler, which updates the React state of the component: the progress   *)
(* log `thinking`, the held result `apiData`, the `error` message and the  *)
(* `loading` / `streamActive` flags.                                       *)
(*                                                                         *)
(* JavaScript is single threaded: everything a handler does between two    *)
(* awaits is one action.  React state updates issued by a handler are      *)
(* visible to the next event handler (the component re-renders between     *)
(* two events), so the component state is modelled as plain variables.     *)
(***************************************************************************)
EXTENDS Integers, Sequences, FiniteSets, TLC

VARIABLES
    version,          \* which component is mounted: "page" or "part000"
    mounted,          \* the component has not been torn down
    apiData,          \* useState<ApiResponse | null>
    loading,          \* useState(false)
    error,            \* useState<string | null>
    thinking,         \* useState<ThinkingEvent[]>
    streamActive,     \* useState(false)
    abortController,  \* useState<AbortController | null>: 0, or the session owning it
    sess,             \* the invocations of handleSubmit, in submission order
    workload,         \* which family of response streams the backend serves
    fnIn, fnOut, fnPc \* harness of the pure functions (normalizeResponse)

vars == <<version, mounted, apiData, loading, error, thinking, streamActive,
          abortController, sess, workload, fnIn, fnOut, fnPc>>

(***************************************************************************)
(* JavaScript values.  Every value is a tuple whose first element is its   *)
(* typeof-like tag, so that values of different types can be compared.     *)
(* An object is a function from the names of its own properties to values; *)
(* property order is not modelled.                                         *)
(***************************************************************************)
Undef == <<"undefined">>
Null == <<"null">>
Bool(b) == <<"boolean", b>>
Str(s) == <<"string", s>>
Num(n) == <<"number", n>>
Arr(q) == <<"array", q>>
Obj(r) == <<"object", r>>
NoProps == [k \in {} |-> Undef]

IsObj(v) == v[1] = "object"
IsArr(v) == v[1] = "array"
IsStr(v) == v[1] = "string"
IsNullish(v) == v \in {Undef, Null}

\* v.k on a value that is neither null nor undefined
Get(v, k) == IF IsObj(v) /\ k \in DOMAIN v[2] THEN v[2][k] ELSE Undef
\* v?.k
OptGet(v, k) == IF IsNullish(v) THEN Undef ELSE Get(v, k)
\* a || b
Truthy(v) == v \notin {Undef, Null, Bool(FALSE), Str(""), Num(0)}
OrElse(a, b) == IF Truthy(a) THEN a ELSE b
\* a ?? b
Coalesce(a, b) == IF IsNullish(a) THEN b ELSE a
\* the own enumerable properties copied by {...v}; the payloads of the model
\* carry objects, null, undefined, booleans and numbers under `data`
Spread(v) == IF IsObj(v) THEN v[2] ELSE NoProps
\* {...a, ...b}
Merge(a, b) ==
    [k \in (DOMAIN a) \cup (DOMAIN b) |-> IF k \in DOMAIN b THEN b[k] ELSE a[k]]

(***************************************************************************)
(* normalizeResponse                                                       *)
(***************************************************************************)
\* normalizeResponse wrapping every highlight, object or not, into {title: h}
normalizeResponseWrapping(data) ==
    Obj(Merge(Spread(data),
              [summary |-> Coalesce(OptGet(data, "summary"),
                                    Coalesce(OptGet(data, "answer"), Null)),
               highlights |-> IF IsArr(OptGet(data, "highlights"))
                              THEN Arr([i \in 1..Len(OptGet(data, "highlights")[2]) |->
                                          Obj([title |-> OptGet(data, "highlights")[2][i]])])
                              ELSE Arr(<<>>),
               sources |-> IF IsArr(OptGet(data, "sources"))
                           THEN OptGet(data, "sources") ELSE Arr(<<>>)]))

\* normalizeResponse choosing the summary with ||: data?.summary || data?.answer
normalizeResponseFalsy(data) ==
    Obj(Merge(Spread(data),
              [summary |-> OrElse(OptGet(data, "summary"),
                                  OrElse(OptGet(data, "answer"), Null)),
               highlights |-> IF IsArr(OptGet(data, "highlights"))
                              THEN OptGet(data, "highlights") ELSE Arr(<<>>),
               sources |-> IF IsArr(OptGet(data, "sources"))
                           THEN OptGet(data, "sources") ELSE Arr(<<>>)]))

\* normalizeResponse defaulting only missing fields: data?.highlights ?? []
normalizeResponseNullish(data) ==
    Obj(Merge(Spread(data),
              [summary |-> Coalesce(OptGet(data, "summary"),
                                    Coalesce(OptGet(data, "answer"), Null)),
               highlights |-> Coalesce(OptGet(data, "highlights"), Arr(<<>>)),
               sources |-> Coalesce(OptGet(data, "sources"), Arr(<<>>))]))

normalizeResponse(data) ==
    Obj(Merge(Spread(data),
              [summary |-> Coalesce(OptGet(data, "summary"),
                                    Coalesce(OptGet(data, "answer"), Null)),
               highlights |-> IF IsArr(OptGet(data, "highlights"))
                              THEN OptGet(data, "highlights") ELSE Arr(<<>>),
               sources |-> IF IsArr(OptGet(data, "sources"))
                           THEN OptGet(data, "sources") ELSE Arr(<<>>)]))

\* highlightCards without the coercion of bare strings
highlightCardsRaw(held) ==
    IF IsArr(OptGet(held, "highlights")) THEN Get(held, "highlights")[2] ELSE <<>>

\* the highlightCards memo: the cards the page renders from the held result
highlightCards(held) ==
    IF ~Truthy(OptGet(held, "highlights")) THEN <<>>
    ELSE IF IsArr(Get(held, "highlights"))
         THEN [i \in 1..Len(Get(held, "highlights")[2]) |->
                 LET h == Get(held, "highlights")[2][i]
                 IN  IF IsStr(h) THEN Obj([title |-> h]) ELSE h]
         ELSE <<>>

(***************************************************************************)
(* Text.  A text is a sequence of characters.  Line structure and the      *)
(* "data: " prefix are spelled character by character; the inside of a     *)
(* JSON text is one symbolic character between its brackets, so a chunk    *)
(* boundary can fall inside the prefix, between the prefix and the         *)
(* payload, inside the payload, and before the line terminator.            *)
(***************************************************************************)
NL == "\n"
IsWs(c) == c \in {" ", NL, "\r", "\t"}

StartsWith(s, p) == Len(s) >= Len(p) /\ SubSeq(s, 1, Len(p)) = p
Drop(s, n) == SubSeq(s, n + 1, Len(s))

RECURSIVE TrimStart(_)
TrimStart(s) == IF s # <<>> /\ IsWs(Head(s)) THEN TrimStart(Tail(s)) ELSE s
RECURSIVE TrimEnd(_)
TrimEnd(s) ==
    IF s # <<>> /\ IsWs(s[Len(s)]) THEN TrimEnd(SubSeq(s, 1, Len(s) - 1)) ELSE s
\* String.prototype.trim
Trim(s) == TrimEnd(TrimStart(s))

\* the index of the first occurrence of sep in s at or after i, 0 if none
RECURSIVE IndexOf(_, _, _)
IndexOf(s, sep, i) ==
    IF i + Len(sep) - 1 > Len(s) THEN 0
    ELSE IF SubSeq(s, i, i + Len(sep) - 1) = sep THEN i
    ELSE IndexOf(s, sep, i + 1)

\* String.prototype.split(sep): the pieces between the occurrences of sep,
\* always at least one piece
RECURSIVE Split(_, _)
Split(s, sep) ==
    LET i == IndexOf(s, sep, 1)
    IN  IF i = 0 THEN <<s>>
        ELSE <<SubSeq(s, 1, i - 1)>> \o Split(Drop(s, i + Len(sep) - 1), sep)

(***************************************************************************)
(* TextDecoder.decode(value, {stream: true}) for UTF-8.  The byte alphabet *)
(* is the ASCII characters, each its own byte, and one two-byte character  *)
(* (lead byte LeadByte, continuation byte ContByte).  A lead byte at the   *)
(* end of a chunk is held in the decoder until the next call; a lead byte  *)
(* not followed by its continuation, and a stray continuation, decode to   *)
(* U+FFFD.                                                                 *)
(***************************************************************************)
LeadByte == "xC3"
ContByte == "xA9"
TwoByteChar == "e-acute"
Replacement == "U+FFFD"
NoPending == "none"

\* the bytes the decoder looks at: the held byte, then the chunk
DecoderInput(pend, bytes) == IF pend = NoPending THEN bytes ELSE <<pend>> \o bytes

\* decode(value) without {stream: true}: a lead byte at the end of the chunk is
\* not held, it decodes to U+FFFD at once
DecodeNoStream(pend, bytes) ==
    LET out == [i \in 1..Len(bytes) |->
                  IF bytes[i] = LeadByte
                  THEN IF i < Len(bytes) /\ bytes[i + 1] = ContByte THEN "" ELSE Replacement
                  ELSE IF bytes[i] = ContByte
                  THEN IF i > 1 /\ bytes[i - 1] = LeadByte THEN TwoByteChar ELSE Replacement
                  ELSE bytes[i]]
    IN  [text |-> SelectSeq(out, LAMBDA c : c # ""), pend |-> NoPending]

Decode(pend, bytes) ==
    LET in == DecoderInput(pend, bytes)
        out == [i \in 1..Len(in) |->
                  IF in[i] = LeadByte
                  THEN IF i = Len(in) \/ in[i + 1] = ContByte THEN "" ELSE Replacement
                  ELSE IF in[i] = ContByte
                  THEN IF i > 1 /\ in[i - 1] = LeadByte THEN TwoByteChar ELSE Replacement
                  ELSE in[i]]
    IN  [text |-> SelectSeq(out, LAMBDA c : c # ""),
         pend |-> IF in # <<>> /\ in[Len(in)] = LeadByte THEN LeadByte ELSE NoPending]

(***************************************************************************)
(* JSON.parse.  The JSON texts of the model are "{" body "}" for the       *)
(* bodies listed in JsonObject, one body that carries the two-byte         *)
(* character, and a few texts that are valid JSON but not objects.         *)
(* Every other text (a cut payload, the sentinel, the empty text, a text   *)
(* holding U+FFFD) makes JSON.parse throw.  JSON.parse skips white space   *)
(* around the value.                                                       *)
(***************************************************************************)
ParseError == <<"SyntaxError">>

TickNames == <<"t01", "t02", "t03", "t04", "t05", "t06", "t07", "t08", "t09",
               "t10", "t11", "t12", "t13", "t14", "t15", "t16", "t17", "t18">>
TickSet == {TickNames[i] : i \in 1..Len(TickNames)}

FallbackError == "The API returned an unsuccessful response."
NoLiveUpdates == "No live updates available. Try another query."
CouldNotReach == "Could not reach the Soccer LLM Analyst API."

ScenarioResult ==
    [success |-> Bool(TRUE), summary |-> Str("Team A won 2-1"),
     highlights |-> Arr(<<Str("Goal highlight")>>),
     sources |-> Arr(<<Str("https://example.com/a")>>)]

JsonObject(b) ==
    CASE b = "P1" -> Obj([type |-> Str("thinking"), stage |-> Str("fetch"),
                          message |-> Str("Searching"), status |-> Str("starting")])
      [] b = "P2" -> Obj([type |-> Str("thinking"),
                          data |-> Obj([stage |-> Str("plan"),
                                        message |-> Str("Planning"),
                                        status |-> Str("done")])])
      [] b = "R1" -> Obj([type |-> Str("result"), data |-> Obj(ScenarioResult)])
      [] b = "R2" -> Obj([type |-> Str("result"),
                          data |-> Obj([answer |-> Str("Draw 0-0"),
                                        intent |-> Str("match"),
                                        highlights |->
                                            Arr(<<Obj([title |-> Str("Clip"),
                                                       url |-> Str("https://youtu.be/x")]),
                                                  Str("Late save")>>)])])
      [] b = "RF" -> Obj([type |-> Str("result"),
                          data |-> Obj([success |-> Bool(FALSE)])])
      [] b \in TickSet -> Obj([type |-> Str("thinking"), stage |-> Str("step"),
                               message |-> Str(b), status |-> Str("info")])
      \* no type, the fields under data only
      [] b = "P3" -> Obj([data |-> Obj([stage |-> Str("plan"),
                                        message |-> Str("Planning")])])
      \* the fields at both levels, with an empty top-level message
      [] b = "P4" -> Obj([type |-> Str("thinking"), stage |-> Str("top"),
                          message |-> Str(""), status |-> Str("running"),
                          data |-> Obj([stage |-> Str("nested"),
                                        message |-> Str("inner"),
                                        status |-> Str("done")])])
      \* no type, an empty stage
      [] b = "P5" -> Obj([stage |-> Str(""), message |-> Str("Warming up")])
      [] b = "P6" -> Obj([type |-> Str("thinking")])
      \* neither a result nor a progress payload
      [] b = "X1" -> Obj([type |-> Str("status"), message |-> Str("hello")])
      \* a result without a data object
      [] b = "R0" -> Obj([type |-> Str("result")])
      \* a result whose highlights and sources are not arrays
      [] b = "R3" -> Obj([type |-> Str("result"),
                          data |-> Obj([success |-> Bool(TRUE),
                                        summary |-> Str("No clips"),
                                        highlights |-> Str("none"),
                                        sources |-> Null])])
      \* a result that also carries a stage
      [] b = "RS" -> Obj([type |-> Str("result"), stage |-> Str("final"),
                          data |-> Obj(ScenarioResult)])
      \* an unsuccessful result with the message of the backend
      [] b = "RE" -> Obj([type |-> Str("result"),
                          data |-> Obj([success |-> Bool(FALSE),
                                        error |-> Str("No match found")])])
      \* a result whose fields are at the top level, without a data object
      [] b = "RT" -> Obj([type |-> Str("result"), success |-> Bool(TRUE),
                          summary |-> Str("Team A won 2-1"),
                          highlights |-> Arr(<<Str("Goal highlight")>>),
                          sources |-> Arr(<<Str("https://example.com/a")>>)])

BodySymbols ==
    {"P1", "P2", "P3", "P4", "P5", "P6", "X1",
     "R0", "R1", "R2", "R3", "RF", "RS", "RE", "RT"} \cup TickSet

JsonParse(text) ==
    LET t == Trim(text)
    IN  IF Len(t) = 3 /\ t[1] = "{" /\ t[3] = "}" /\ t[2] \in BodySymbols
        THEN JsonObject(t[2])
        ELSE IF t = <<"{", "Q", TwoByteChar, "}">>
        THEN Obj([stage |-> Str("quote"), message |-> Str(TwoByteChar)])
        ELSE IF t = <<"null">> THEN Null
        ELSE IF t = <<"7">> THEN Num(7)
        ELSE IF t = <<"\"fetch\"">> THEN Str("fetch")
        ELSE IF t = <<"true">> THEN Bool(TRUE)
        ELSE IF t = <<"[", "{", "P1", "}", "]">> THEN Arr(<<JsonObject("P1")>>)
        ELSE ParseError

(***************************************************************************)
(* The record handler.  An event is what the handler does to the state:    *)
(* kind "result" replaces apiData by val, kind "progress" appends val to   *)
(* thinking, kind "none" does nothing.                                     *)
(***************************************************************************)
Sentinel == <<"[", "DONE", "]">>
LogCap == 12

NoEvent == [kind |-> "none", val |-> Undef]

\* the object pushed to the progress log
ThinkingEvent(parsed) ==
    LET stageLike == OrElse(Get(parsed, "stage"), OptGet(Get(parsed, "data"), "stage"))
        statusLike == OrElse(Get(parsed, "status"), OptGet(Get(parsed, "data"), "status"))
        messageLike == OrElse(Get(parsed, "message"), OptGet(Get(parsed, "data"), "message"))
    IN  Obj([stage |-> OrElse(stageLike, Str("thinking")),
             message |-> OrElse(messageLike, Str("")),
             status |-> OrElse(statusLike, Str("info"))])

\* a catch block that reports the parse failure as an unsuccessful result
ClassifyParsedReporting(parsed, withFallback) ==
    IF parsed = ParseError \/ IsNullish(parsed)
    THEN [kind |-> "result",
          val |-> Obj([success |-> Bool(FALSE), error |-> Str(FallbackError)])]
    ELSE IF Get(parsed, "type") = Str("result")
    THEN [kind |-> "result", val |-> normalizeResponse(Get(parsed, "data"))]
    ELSE IF Get(parsed, "type") = Str("thinking")
            \/ Truthy(OrElse(Get(parsed, "stage"),
                             OptGet(Get(parsed, "data"), "stage")))
    THEN [kind |-> "progress", val |-> ThinkingEvent(parsed)]
    ELSE NoEvent

\* a handler that unwraps an array payload and logs its first element
ClassifyParsedUnwrapping(parsed, withFallback) ==
    IF parsed = ParseError \/ IsNullish(parsed) THEN NoEvent
    ELSE IF IsArr(parsed) /\ parsed[2] # <<>>
    THEN [kind |-> "progress", val |-> ThinkingEvent(parsed[2][1])]
    ELSE IF Get(parsed, "type") = Str("result")
    THEN [kind |-> "result", val |-> normalizeResponse(Get(parsed, "data"))]
    ELSE IF Get(parsed, "type") = Str("thinking")
            \/ Truthy(OrElse(Get(parsed, "stage"),
                             OptGet(Get(parsed, "data"), "stage")))
    THEN [kind |-> "progress", val |-> ThinkingEvent(parsed)]
    ELSE NoEvent

\* the try block of the handlers, after JSON.parse; withFallback is TRUE in
\* page.tsx, which adds an error text to an unsuccessful result.  Reading
\* parsed.stage of null throws a TypeError, which the catch swallows.
ClassifyParsed(parsed, withFallback) ==
    IF parsed = ParseError \/ IsNullish(parsed) THEN NoEvent
    ELSE IF Get(parsed, "type") = Str("result")
    THEN LET responseData == normalizeResponse(Get(parsed, "data"))
         IN  IF withFallback /\ Get(responseData, "success") = Bool(FALSE)
             THEN [kind |-> "result",
                   val |-> Obj(Merge(responseData[2],
                              [error |-> OrElse(Get(responseData, "error"),
                                                Str(FallbackError))]))]
             ELSE [kind |-> "result", val |-> responseData]
    ELSE IF Get(parsed, "type") = Str("thinking")
            \/ Truthy(OrElse(Get(parsed, "stage"),
                             OptGet(Get(parsed, "data"), "stage")))
    THEN [kind |-> "progress", val |-> ThinkingEvent(parsed)]
    ELSE NoEvent

\* a handler without the early return, which logs an entry for a record
\* without payload
processSSELineLogsAll(data) ==
    IF data = Sentinel \/ Trim(data) = <<>>
    THEN [kind |-> "progress",
          val |-> Obj([stage |-> Str("thinking"), message |-> Str(""),
                       status |-> Str("info")])]
    ELSE ClassifyParsed(JsonParse(data), TRUE)

\* processSSELine of page.tsx
processSSELine(data) ==
    IF data = Sentinel \/ Trim(data) = <<>> THEN NoEvent
    ELSE ClassifyParsed(JsonParse(data), TRUE)

Prefix == <<"d", "a", "t", "a", ":", " ">>
\* a for loop that handles the lines of a chunk last to first
RECURSIVE LineEventsReversed(_)
LineEventsReversed(lines) ==
    IF lines = <<>> THEN <<>>
    ELSE LineEventsReversed(Tail(lines))
         \o (IF StartsWith(Head(lines), Prefix)
             THEN <<processSSELine(Drop(Head(lines), Len(Prefix)))>> ELSE <<>>)

\* the lines of page.tsx that are records, as events
RECURSIVE LineEvents(_)
LineEvents(lines) ==
    IF lines = <<>> THEN <<>>
    ELSE (IF StartsWith(Head(lines), Prefix)
          THEN <<processSSELine(Drop(Head(lines), Len(Prefix)))>> ELSE <<>>)
         \o LineEvents(Tail(lines))

\* the body of the for loop of part_000 over the messages of one read
PrefixNoSpace == <<"d", "a", "t", "a", ":">>
\* a loop whose catch logs the malformed payload
RECURSIVE MessageEventsLogging(_)
MessageEventsLogging(messages) ==
    IF messages = <<>> THEN <<>>
    ELSE LET line == Trim(Head(messages))
             parsed == JsonParse(TrimStart(Drop(line, Len(PrefixNoSpace))))
         IN  (IF StartsWith(line, PrefixNoSpace)
              THEN <<IF parsed = ParseError
                     THEN [kind |-> "progress",
                           val |-> Obj([stage |-> Str("error"),
                                        message |-> Str("malformed"),
                                        status |-> Str("info")])]
                     ELSE ClassifyParsed(parsed, FALSE)>>
              ELSE <<>>)
             \o MessageEventsLogging(Tail(messages))
RECURSIVE MessageEvents(_)
MessageEvents(messages) ==
    IF messages = <<>> THEN <<>>
    ELSE LET line == Trim(Head(messages))
         IN  (IF StartsWith(line, PrefixNoSpace)
              THEN <<ClassifyParsed(JsonParse(TrimStart(Drop(line, Len(PrefixNoSpace)))),
                                    FALSE)>>
              ELSE <<>>)
             \o MessageEvents(Tail(messages))

\* slice(0, 12): keeps the oldest entries
LastOfFirst(q, n) == IF Len(q) <= n THEN q ELSE SubSeq(q, 1, n)

\* [...prev, item].slice(-12)
LastOf(q, n) == IF Len(q) <= n THEN q ELSE SubSeq(q, Len(q) - n + 1, Len(q))

\* a reducer that merges a result into the held one instead of replacing it
RECURSIVE ReduceMerging(_, _)
ReduceMerging(st, events) ==
    IF events = <<>> THEN st
    ELSE LET e == Head(events)
         IN  ReduceMerging(
                CASE e.kind = "result" ->
                         [st EXCEPT !.apiData = Obj(Merge(Spread(@), e.val[2]))]
                  [] e.kind = "progress" ->
                         [st EXCEPT !.thinking = LastOf(Append(@, e.val), LogCap)]
                  [] OTHER -> st,
                Tail(events))

\* a reducer in which a result event also empties the progress log
RECURSIVE ReduceClearing(_, _)
ReduceClearing(st, events) ==
    IF events = <<>> THEN st
    ELSE LET e == Head(events)
         IN  ReduceClearing(
                CASE e.kind = "result" -> [st EXCEPT !.apiData = e.val, !.thinking = <<>>]
                  [] e.kind = "progress" ->
                         [st EXCEPT !.thinking = LastOf(Append(@, e.val), LogCap)]
                  [] OTHER -> st,
                Tail(events))

\* the state setters called for a sequence of events, in order
RECURSIVE Reduce(_, _)
Reduce(st, events) ==
    IF events = <<>> THEN st
    ELSE LET e == Head(events)
         IN  Reduce(CASE e.kind = "result" -> [st EXCEPT !.apiData = e.val]
                      [] e.kind = "progress" ->
                             [st EXCEPT !.thinking = LastOf(Append(@, e.val), LogCap)]
                      [] OTHER -> st,
                    Tail(events))

\* some event of the sequence replaces the held result
HasResult(events) == \E i \in 1..Len(events) : events[i].kind = "result"

\* the events that changed something
Effective(events) == SelectSeq(events, LAMBDA e : e.kind # "none")

(***************************************************************************)
(* The response body.  The backend sends units: an item (a record line or  *)
(* another line) followed by the terminator of the session, "\n" or the    *)
(* blank line "\n\n" of server-sent events; the last unit of a body may    *)
(* lack its terminator.  The transport hands the bytes to the reader in    *)
(* chunks.  In the "frames" workload a chunk ends at any byte; in the      *)
(* other workloads a chunk is one whole unit.                              *)
(***************************************************************************)
MaxSubmits == 2     \* submissions in the workloads with several sessions
MaxLines == 1       \* units of a body in the workloads with several sessions
MaxFrames == 2      \* units of a body in the "frames" workload
MaxTicks == 13      \* units of a body in the "log" workload
MaxRecords == 3     \* units of a body in the "records" workload
MaxPayloads == 2    \* units of a body in the "payloads" workload
MaxMixed == 3       \* units of a body in the "lines" workload
MaxValues == 3      \* units of a body in the "values" workload
MaxAfter == 3       \* units of a body in the "reset" workload

Record(b) == Prefix \o <<"{", b, "}">>
SentinelLine == Prefix \o Sentinel
\* a record whose payload lost its closing brace
CutRecord == Prefix \o <<"{", "P1">>
\* a record whose message holds the two-byte character
QuoteRecord == Prefix \o <<"{", "Q", LeadByte, ContByte, "}">>

SessionItems == {Record("P1"), Record("R1")}
FrameItems == {Record("P1"), Record("R1"), CutRecord, QuoteRecord}
RecordItems == {Record("P1"), Record("P2"), Record("R1"), Record("R2"),
                Record("RF"), CutRecord, SentinelLine}
\* records without payload, and lines that are not records
EmptyRecord == Prefix
BlankRecord == Prefix \o <<" ">>
BlankLine == <<>>
CommentLine == <<":", "keepalive">>
FieldLine == <<"event", ":", " ", "progress">>
NoSpaceRecord == PrefixNoSpace \o <<"{", "P1", "}">>
\* a unit of two lines: a field line, then a record
FieldThenRecord == FieldLine \o <<NL>> \o Record("P1")
\* a unit of two lines, both records
TwoRecords == Record("P1") \o <<NL>> \o Record("P2")
LineItems == {Record("P1"), Record("R1"), EmptyRecord, BlankRecord, SentinelLine,
              BlankLine, CommentLine, FieldLine, NoSpaceRecord, FieldThenRecord,
              TwoRecords}

\* records whose payload is valid JSON but not an object
NullRecord == Prefix \o <<"null">>
NumberRecord == Prefix \o <<"7">>
StringRecord == Prefix \o <<"\"fetch\"">>
BooleanRecord == Prefix \o <<"true">>
ArrayRecord == Prefix \o <<"[", "{", "P1", "}", "]">>
ValueItems == {Record("P1"), Record("R1"), NullRecord, NumberRecord, StringRecord,
               BooleanRecord, ArrayRecord}

\* an unsuccessful result and a malformed record
ErrorItems == {Record("RE"), CutRecord}

\* an unsuccessful result, which offers the reset button, and a progress record
ResetItems == {Record("RE"), Record("P1")}

PayloadBodies ==
    {"P3", "P4", "P5", "P6", "X1", "R0", "R1", "R3", "RF", "RS", "RE", "RT"}
PayloadItems == {Record(b) : b \in PayloadBodies}

Terminators(w) == IF w = "frames" THEN {<<NL>>, <<NL, NL>>} ELSE {<<NL, NL>>}
UnitLimit(w) ==
    CASE w \in {"sessions", "overlap", "cleanup", "errors"} -> MaxLines
      [] w = "frames" -> MaxFrames
      [] w = "log" -> MaxTicks
      [] w = "records" -> MaxRecords
      [] w = "payloads" -> MaxPayloads
      [] w = "lines" -> MaxMixed
      [] w = "values" -> MaxValues
      [] w = "reset" -> MaxAfter
SubmitLimit(w) ==
    IF w \in {"sessions", "overlap", "cleanup", "errors"} THEN MaxSubmits ELSE 1

\* the units the backend may send as unit number k of a body
Units(w, term, k) ==
    CASE w = "sessions" -> {[bytes |-> i \o term, final |-> FALSE] : i \in SessionItems}
      [] w = "cleanup" -> {[bytes |-> Record("R1") \o term, final |-> FALSE]}
      [] w = "overlap" -> {[bytes |-> Record("R1") \o term, final |-> FALSE],
                            [bytes |-> Record("P1"), final |-> TRUE]}
      [] w = "frames" -> {[bytes |-> i \o term, final |-> FALSE] : i \in FrameItems}
                           \cup {[bytes |-> i, final |-> TRUE] : i \in FrameItems}
      [] w = "log" -> {[bytes |-> Record(TickNames[k]) \o term, final |-> FALSE]}
      [] w = "records" -> {[bytes |-> i \o term, final |-> FALSE] : i \in RecordItems}
      [] w = "payloads" -> {[bytes |-> i \o term, final |-> FALSE] : i \in PayloadItems}
      [] w = "lines" -> {[bytes |-> i \o term, final |-> FALSE] : i \in LineItems}
      [] w = "values" -> {[bytes |-> i \o term, final |-> FALSE] : i \in ValueItems}
      [] w = "errors" -> {[bytes |-> i \o term, final |-> FALSE] : i \in ErrorItems}
      [] w = "reset" -> {[bytes |-> i \o term, final |-> FALSE] : i \in ResetItems}

\* what may follow the bytes in transit within one chunk: bytes are handed
\* out, rest stays in transit, units is the number of units started
RECURSIVE Continuations(_, _, _, _)
Continuations(w, term, units, final) ==
    {[bytes |-> <<>>, rest |-> <<>>, units |-> units, final |-> final]}
    \cup
    (IF final \/ units >= UnitLimit(w) THEN {}
     ELSE UNION {
        LET whole == IF w = "frames"
                     THEN {[c EXCEPT !.bytes = u.bytes \o @] :
                              c \in Continuations(w, term, units + 1, u.final)}
                     ELSE {[bytes |-> u.bytes, rest |-> <<>>, units |-> units + 1,
                            final |-> u.final]}
            cut == IF w = "frames"
                   THEN {[bytes |-> SubSeq(u.bytes, 1, n),
                          rest |-> SubSeq(u.bytes, n + 1, Len(u.bytes)),
                          units |-> units + 1, final |-> u.final] :
                            n \in 1..(Len(u.bytes) - 1)}
                   ELSE {}
        IN  whole \cup cut : u \in Units(w, term, units + 1)})

\* the chunks the next read of session record r can resolve with
Chunks(w, r) ==
    (IF w = "frames"
     THEN {[bytes |-> SubSeq(r.rest, 1, n), rest |-> SubSeq(r.rest, n + 1, Len(r.rest)),
            units |-> r.units, final |-> r.final] : n \in 1..(Len(r.rest) - 1)}
     ELSE {})
    \cup {c \in {[k EXCEPT !.bytes = r.rest \o @] :
                    k \in Continuations(w, r.term, r.units, r.final)} :
            c.bytes # <<>>}

\* the chunks a pending read of session s of component v can resolve with
ChunksNow(s, v) ==
    IF version = v /\ sess[s].pc = "read" THEN Chunks(workload, sess[s]) ELSE {}

(***************************************************************************)
(* Sessions.  sess[s] is one invocation of handleSubmit:                   *)
(*   pc        "fetch" awaiting fetch, "read" awaiting reader.read(),      *)
(*             "done" returned                                             *)
(*   aborted   controller.signal.aborted                                   *)
(*   term, rest, units, final   the response body, see above               *)
(*   received  the bytes the reader has handed out so far                  *)
(*   pend      the byte held by the TextDecoder                            *)
(*   buffer    the local variable buffer                                   *)
(*   applied   the state-changing events this invocation has issued        *)
(*   cut       some chunk so far ended inside a unit                       *)
(*   outcome   how the invocation ended                                    *)
(*   thrown    the message of the error its catch block caught, if not an  *)
(*             abort                                                       *)
(***************************************************************************)
Sessions == 1..Len(sess)
Live(s) == sess[s].pc # "done"

State == [apiData |-> apiData, thinking |-> thinking]

\* a state setter called after the component is unmounted does nothing
SetResultAndLog(events) ==
    LET st == Reduce(State, events)
    IN  /\ apiData' = IF mounted THEN st.apiData ELSE apiData
        /\ thinking' = IF mounted THEN st.thinking ELSE thinking
SetFlags(l, a) ==
    /\ loading' = IF mounted THEN l ELSE loading
    /\ streamActive' = IF mounted THEN a ELSE streamActive
SetError(e) == error' = IF mounted THEN e ELSE error

NewSession(term) ==
    [pc |-> "fetch", aborted |-> FALSE, term |-> term, rest |-> <<>>, units |-> 0,
     final |-> FALSE, received |-> <<>>, pend |-> NoPending, buffer |-> <<>>,
     applied |-> <<>>, cut |-> FALSE, outcome |-> "pending", thrown |-> "none"]

\* AbortController.abort() of the controller held in state
AbortHeld(q) ==
    IF abortController # 0 THEN [q EXCEPT ![abortController].aborted = TRUE] ELSE q

InitOf(w) ==
    /\ version \in {"page", "part000"}
    /\ workload = w
    /\ mounted = TRUE
    /\ apiData = Null
    /\ loading = FALSE
    /\ error = Null
    /\ thinking = <<>>
    /\ streamActive = FALSE
    /\ abortController = 0
    /\ sess = <<>>
    /\ fnIn = Undef /\ fnOut = Undef /\ fnPc = "off"

Init == InitOf("sessions")
InitFrames == InitOf("frames")
InitLog == InitOf("log")
InitRecords == InitOf("records")
InitPayloads == InitOf("payloads")
InitLines == InitOf("lines")
InitValues == InitOf("values")
InitErrors == InitOf("errors")
InitReset == InitOf("reset")
InitOverlap == InitOf("overlap")
InitCleanup == InitOf("cleanup")

\* a handleSubmit that starts the new stream without clearing what the
\* previous session left
SubmitPageKeeping(term) ==
    /\ version = "page" /\ mounted
    /\ Len(sess) < SubmitLimit(workload)
    /\ sess' = Append(AbortHeld(sess), NewSession(term))
    /\ abortController' = Len(sess) + 1
    /\ loading' = TRUE /\ streamActive' = TRUE
    /\ UNCHANGED <<version, mounted, error, apiData, thinking, workload,
                   fnIn, fnOut, fnPc>>

\* handleSubmit of page.tsx up to the await of fetch.  The handler itself has
\* no guard: the disabled attribute of the submit button only keeps the
\* pointer away, and the handler aborts the previous controller because it
\* can run (form.requestSubmit()) while a stream is open.
SubmitPage(term) ==
    /\ version = "page" /\ mounted
    /\ Len(sess) < SubmitLimit(workload)
    /\ sess' = Append(AbortHeld(sess), NewSession(term))
    /\ abortController' = Len(sess) + 1
    /\ loading' = TRUE /\ streamActive' = TRUE
    /\ error' = Null /\ apiData' = Null /\ thinking' = <<>>
    /\ UNCHANGED <<version, mounted, workload, fnIn, fnOut, fnPc>>

\* handleSubmit of part_000 up to the await of fetch
SubmitPart(term) ==
    /\ version = "part000" /\ mounted
    /\ Len(sess) < SubmitLimit(workload)
    /\ sess' = Append(sess, NewSession(term))
    /\ loading' = TRUE /\ streamActive' = TRUE
    /\ error' = Null /\ apiData' = Null /\ thinking' = <<>>
    /\ UNCHANGED <<version, mounted, workload, abortController, fnIn, fnOut, fnPc>>

\* fetch resolves with an ok response that has a body
FetchOk(s) ==
    /\ sess[s].pc = "fetch" /\ ~sess[s].aborted
    /\ sess' = [sess EXCEPT ![s].pc = "read"]
    /\ UNCHANGED <<version, mounted, apiData, loading, error, thinking,
                   streamActive, abortController, workload, fnIn, fnOut, fnPc>>

\* what every read does to the transport fields of the session
Delivered(r, c) ==
    [r EXCEPT !.rest = c.rest, !.units = c.units, !.final = c.final,
              !.received = @ \o c.bytes, !.cut = @ \/ c.rest # <<>>]

\* a read loop that takes the sentinel for the end of the session
ReadChunkPageSentinelEnds(s, c) ==
    /\ version = "page"
    /\ sess[s].pc = "read" /\ ~sess[s].aborted
    /\ LET d == Decode(sess[s].pend, c.bytes)
           lines == Split(sess[s].buffer \o d.text, <<NL>>)
           events == LineEvents(SubSeq(lines, 1, Len(lines) - 1))
           ended == \E i \in 1..(Len(lines) - 1) : lines[i] = SentinelLine
       IN  /\ sess' = [sess EXCEPT ![s] = [Delivered(@, c) EXCEPT
                                   !.pend = d.pend,
                                   !.buffer = lines[Len(lines)],
                                   !.applied = @ \o Effective(events)]]
           /\ SetResultAndLog(events)
           /\ IF ended THEN SetFlags(FALSE, FALSE) ELSE UNCHANGED <<loading, streamActive>>
    /\ UNCHANGED <<version, mounted, error, abortController, workload,
                   fnIn, fnOut, fnPc>>

\* a read loop that forgets the incomplete last line instead of carrying it
ReadChunkPageDropsBuffer(s, c) ==
    /\ version = "page"
    /\ sess[s].pc = "read" /\ ~sess[s].aborted
    /\ LET d == Decode(sess[s].pend, c.bytes)
           lines == Split(sess[s].buffer \o d.text, <<NL>>)
           events == LineEvents(SubSeq(lines, 1, Len(lines) - 1))
       IN  /\ sess' = [sess EXCEPT ![s] = [Delivered(@, c) EXCEPT
                                   !.pend = d.pend,
                                   !.buffer = <<>>,
                                   !.applied = @ \o Effective(events)]]
           /\ SetResultAndLog(events)
    /\ UNCHANGED <<version, mounted, loading, error, streamActive,
                   abortController, workload, fnIn, fnOut, fnPc>>

\* a read loop that ends the session on a result with success false
ReadChunkPageFailureEnds(s, c) ==
    /\ version = "page"
    /\ sess[s].pc = "read" /\ ~sess[s].aborted
    /\ LET d == Decode(sess[s].pend, c.bytes)
           lines == Split(sess[s].buffer \o d.text, <<NL>>)
           events == LineEvents(SubSeq(lines, 1, Len(lines) - 1))
           failed == \E i \in 1..Len(events) :
                        /\ events[i].kind = "result"
                        /\ Get(events[i].val, "success") = Bool(FALSE)
       IN  /\ sess' = [sess EXCEPT ![s] = [Delivered(@, c) EXCEPT
                                   !.pend = d.pend,
                                   !.buffer = lines[Len(lines)],
                                   !.applied = @ \o Effective(events),
                                   !.pc = IF failed THEN "done" ELSE @,
                                   !.outcome = IF failed THEN "failed" ELSE @]]
           /\ SetResultAndLog(events)
           /\ IF failed THEN SetFlags(FALSE, FALSE) ELSE UNCHANGED <<loading, streamActive>>
    /\ UNCHANGED <<version, mounted, error, abortController, workload,
                   fnIn, fnOut, fnPc>>

\* reader.read() resolves with chunk c: one turn of the loop of page.tsx
ReadChunkPage(s, c) ==
    /\ version = "page"
    /\ sess[s].pc = "read" /\ ~sess[s].aborted
    /\ LET d == Decode(sess[s].pend, c.bytes)
           lines == Split(sess[s].buffer \o d.text, <<NL>>)
           events == LineEvents(SubSeq(lines, 1, Len(lines) - 1))
       IN  /\ sess' = [sess EXCEPT ![s] = [Delivered(@, c) EXCEPT
                                   !.pend = d.pend,
                                   !.buffer = lines[Len(lines)],
                                   !.applied = @ \o Effective(events)]]
           /\ SetResultAndLog(events)
    /\ UNCHANGED <<version, mounted, loading, error, streamActive,
                   abortController, workload, fnIn, fnOut, fnPc>>

\* a normal exit that reports a stream without result as an error
ReadDonePageNoUpdates(s) ==
    /\ version = "page"
    /\ sess[s].pc = "read" /\ ~sess[s].aborted
    /\ sess[s].rest = <<>>
    /\ LET events == IF Trim(sess[s].buffer) # <<>>
                     THEN LineEvents(Split(sess[s].buffer, <<NL>>)) ELSE <<>>
       IN  /\ sess' = [sess EXCEPT ![s].pc = "done", ![s].outcome = "closed",
                                   ![s].applied = @ \o Effective(events)]
           /\ SetResultAndLog(events)
           /\ IF HasResult(sess[s].applied \o events)
              THEN UNCHANGED error ELSE SetError(Str(NoLiveUpdates))
    /\ SetFlags(FALSE, FALSE)
    /\ UNCHANGED <<version, mounted, abortController, workload, fnIn, fnOut, fnPc>>

\* a normal end of the stream that reports the missing result as an error
ReadDonePageWithError(s) ==
    /\ version = "page"
    /\ sess[s].pc = "read" /\ ~sess[s].aborted
    /\ sess[s].rest = <<>>
    /\ LET events == IF Trim(sess[s].buffer) # <<>>
                     THEN LineEvents(Split(sess[s].buffer, <<NL>>)) ELSE <<>>
       IN  /\ sess' = [sess EXCEPT ![s].pc = "done", ![s].outcome = "closed",
                                   ![s].applied = @ \o Effective(events)]
           /\ SetResultAndLog(events)
    /\ SetFlags(FALSE, FALSE)
    /\ SetError(IF apiData' = Null THEN Str(NoLiveUpdates) ELSE error)
    /\ UNCHANGED <<version, mounted, abortController, workload,
                   fnIn, fnOut, fnPc>>

\* reader.read() resolves with done: the flush of page.tsx and the normal exit
ReadDonePage(s) ==
    /\ version = "page"
    /\ sess[s].pc = "read" /\ ~sess[s].aborted
    /\ sess[s].rest = <<>>
    /\ LET events == IF Trim(sess[s].buffer) # <<>>
                     THEN LineEvents(Split(sess[s].buffer, <<NL>>)) ELSE <<>>
       IN  /\ sess' = [sess EXCEPT ![s].pc = "done", ![s].outcome = "closed",
                                   ![s].applied = @ \o Effective(events)]
           /\ SetResultAndLog(events)
    /\ SetFlags(FALSE, FALSE)
    /\ UNCHANGED <<version, mounted, error, abortController, workload,
                   fnIn, fnOut, fnPc>>

\* one turn of the loop of part_000
ReadChunkPart(s, c) ==
    /\ version = "part000"
    /\ sess[s].pc = "read"
    /\ LET d == Decode(sess[s].pend, c.bytes)
           messages == Split(sess[s].buffer \o d.text, <<NL, NL>>)
           events == MessageEvents(SubSeq(messages, 1, Len(messages) - 1))
       IN  /\ sess' = [sess EXCEPT ![s] = [Delivered(@, c) EXCEPT
                                   !.pend = d.pend,
                                   !.buffer = messages[Len(messages)],
                                   !.applied = @ \o Effective(events)]]
           /\ SetResultAndLog(events)
    /\ UNCHANGED <<version, mounted, loading, error, streamActive,
                   abortController, workload, fnIn, fnOut, fnPc>>

\* done in part_000: break, then the finally block
ReadDonePart(s) ==
    /\ version = "part000"
    /\ sess[s].pc = "read"
    /\ sess[s].rest = <<>>
    /\ sess' = [sess EXCEPT ![s].pc = "done", ![s].outcome = "closed"]
    /\ SetFlags(FALSE, FALSE)
    /\ UNCHANGED <<version, mounted, apiData, error, thinking, abortController,
                   workload, fnIn, fnOut, fnPc>>

\* the messages of the errors with which fetch or a read rejects; the
\* "overlap" workload has a transport that can run out of memory
FetchFailed == "Failed to fetch"
OutOfMemory == "Out of memory"
ThrownMessages(w) == IF w = "overlap" THEN {FetchFailed, OutOfMemory} ELSE {FetchFailed}

\* a catch block that takes every error for a cancellation
TransportErrorPageSilent(s, msg) ==
    /\ version = "page"
    /\ Live(s) /\ ~sess[s].aborted
    /\ sess' = [sess EXCEPT ![s].pc = "done", ![s].outcome = "failed",
                            ![s].thrown = msg]
    /\ SetFlags(FALSE, FALSE)
    /\ UNCHANGED <<version, mounted, apiData, error, thinking, abortController,
                   workload, fnIn, fnOut, fnPc>>

\* a catch block that also drops the held result
TransportErrorPageClearing(s, msg) ==
    /\ version = "page"
    /\ Live(s) /\ ~sess[s].aborted
    /\ sess' = [sess EXCEPT ![s].pc = "done", ![s].outcome = "failed",
                            ![s].thrown = msg]
    /\ SetError(Str(NoLiveUpdates))
    /\ SetFlags(FALSE, FALSE)
    /\ apiData' = Null
    /\ UNCHANGED <<version, mounted, thinking, abortController,
                   workload, fnIn, fnOut, fnPc>>

\* the catch block of page.tsx for an error that is not an abort: fetch or
\* read rejected by the network, a status that is not ok, a missing body
TransportErrorPage(s, msg) ==
    /\ version = "page"
    /\ Live(s) /\ ~sess[s].aborted
    /\ sess' = [sess EXCEPT ![s].pc = "done", ![s].outcome = "failed",
                            ![s].thrown = msg]
    /\ SetError(Str(NoLiveUpdates))
    /\ SetFlags(FALSE, FALSE)
    /\ UNCHANGED <<version, mounted, apiData, thinking, abortController,
                   workload, fnIn, fnOut, fnPc>>

\* the catch and finally blocks of part_000
TransportErrorPart(s, msg) ==
    /\ version = "part000"
    /\ Live(s)
    /\ sess' = [sess EXCEPT ![s].pc = "done", ![s].outcome = "failed",
                            ![s].thrown = msg]
    /\ SetError(Str(CouldNotReach))
    /\ SetFlags(FALSE, FALSE)
    /\ UNCHANGED <<version, mounted, apiData, thinking, abortController,
                   workload, fnIn, fnOut, fnPc>>

\* a catch block that flushes the carry-over buffer of a cancelled session
AbortedPageFlushing(s) ==
    /\ version = "page"
    /\ Live(s) /\ sess[s].aborted
    /\ LET events == IF Trim(sess[s].buffer) # <<>>
                     THEN LineEvents(Split(sess[s].buffer, <<NL>>)) ELSE <<>>
       IN  /\ sess' = [sess EXCEPT ![s].pc = "done", ![s].outcome = "cancelled",
                                   ![s].applied = @ \o Effective(events)]
           /\ SetResultAndLog(events)
    /\ SetFlags(FALSE, FALSE)
    /\ UNCHANGED <<version, mounted, error, abortController, workload,
                   fnIn, fnOut, fnPc>>

\* a catch block that returns at once on an AbortError, flags untouched
AbortedPageKeepsFlags(s) ==
    /\ version = "page"
    /\ Live(s) /\ sess[s].aborted
    /\ sess' = [sess EXCEPT ![s].pc = "done", ![s].outcome = "cancelled"]
    /\ UNCHANGED <<version, mounted, apiData, loading, error, thinking,
                   streamActive, abortController, workload, fnIn, fnOut, fnPc>>

\* a catch block without the test of the error name
AbortedPageAsError(s) ==
    /\ version = "page"
    /\ Live(s) /\ sess[s].aborted
    /\ sess' = [sess EXCEPT ![s].pc = "done", ![s].outcome = "cancelled"]
    /\ SetError(Str(NoLiveUpdates))
    /\ SetFlags(FALSE, FALSE)
    /\ UNCHANGED <<version, mounted, apiData, thinking, abortController,
                   workload, fnIn, fnOut, fnPc>>

\* the catch block of page.tsx for the AbortError with which the pending
\* fetch or read of an aborted controller rejects
AbortedPage(s) ==
    /\ version = "page"
    /\ Live(s) /\ sess[s].aborted
    /\ sess' = [sess EXCEPT ![s].pc = "done", ![s].outcome = "cancelled"]
    /\ SetFlags(FALSE, FALSE)
    /\ UNCHANGED <<version, mounted, apiData, error, thinking, abortController,
                   workload, fnIn, fnOut, fnPc>>

\* an unmount without the cleanup of the effect
TeardownNoAbort ==
    /\ mounted
    /\ mounted' = FALSE
    /\ UNCHANGED <<version, apiData, loading, error, thinking, streamActive,
                   abortController, sess, workload, fnIn, fnOut, fnPc>>

\* the component unmounts; the cleanup of the effect of page.tsx aborts the
\* controller held in state, part_000 has no cleanup
Teardown ==
    /\ mounted
    /\ mounted' = FALSE
    /\ sess' = IF version = "page" THEN AbortHeld(sess) ELSE sess
    /\ UNCHANGED <<version, apiData, loading, error, thinking, streamActive,
                   abortController, workload, fnIn, fnOut, fnPc>>

\* text.toLowerCase().includes('memory'), for the texts of the model
MemoryTexts == {OutOfMemory, "memory limit exceeded"}
HasMemory(text) == text \in MemoryTexts

\* what the page renders for the error message: nothing, the memory wording
\* or the message itself
ErrorBanner ==
    IF ~Truthy(error) THEN "none"
    ELSE IF HasMemory(error[2]) THEN "memory"
    ELSE "message"

Next ==
    \/ \E term \in Terminators(workload) : SubmitPage(term)
    \/ \E term \in Terminators(workload) : SubmitPart(term)
    \/ \E s \in Sessions : FetchOk(s)
    \/ \E s \in Sessions : \E c \in ChunksNow(s, "page") : ReadChunkPage(s, c)
    \/ \E s \in Sessions : ReadDonePage(s)
    \/ \E s \in Sessions : \E c \in ChunksNow(s, "part000") : ReadChunkPart(s, c)
    \/ \E s \in Sessions : ReadDonePart(s)
    \/ \E s \in Sessions : \E msg \in ThrownMessages(workload) :
          TransportErrorPage(s, msg)
    \/ \E s \in Sessions : \E msg \in ThrownMessages(workload) :
          TransportErrorPart(s, msg)
    \/ \E s \in Sessions : AbortedPage(s)
    \/ Teardown

Spec == Init /\ [][Next]_vars
SpecFrames == InitFrames /\ [][Next]_vars
SpecLog == InitLog /\ [][Next]_vars
SpecRecords == InitRecords /\ [][Next]_vars
SpecPayloads == InitPayloads /\ [][Next]_vars
SpecLines == InitLines /\ [][Next]_vars
SpecValues == InitValues /\ [][Next]_vars
SpecErrors == InitErrors /\ [][Next]_vars

\* The "Try Another Query" button of page.tsx, rendered while the held result
\* has success false: it empties the held result and the log (and the query
\* text, which the model does not hold) and touches neither the flags, the
\* error message nor the transport.
TryAnotherQuery ==
    /\ version = "page" /\ mounted
    /\ OptGet(apiData, "success") = Bool(FALSE)
    /\ apiData' = Null
    /\ thinking' = <<>>
    /\ UNCHANGED <<version, mounted, loading, error, streamActive, sess,
                   abortController, workload, fnIn, fnOut, fnPc>>

\* the page with its reset button
NextReset == Next \/ TryAnotherQuery
SpecReset == InitReset /\ [][NextReset]_vars
SpecOverlap == InitOverlap /\ [][Next]_vars

\* the invocation of session s returns: its stream closes, its transport
\* fails, or the rejection of its aborted transport is handled
End(s) ==
    /\ s \in Sessions
    /\ \/ ReadDonePage(s) \/ ReadDonePart(s)
       \/ \E msg \in ThrownMessages(workload) :
             TransportErrorPage(s, msg) \/ TransportErrorPart(s, msg)
       \/ AbortedPage(s)

\* every transport eventually closes, fails or is cancelled, and the promise
\* that reports it is eventually handled
SpecLive ==
    /\ InitCleanup /\ [][Next]_vars
    /\ \A s \in 1..MaxSubmits : WF_vars(End(s))

(***************************************************************************)
(* The pure functions, applied to every raw result payload of a bounded    *)
(* set: an input is normalized once, then its output is normalized again.  *)
(***************************************************************************)
Absent == <<"absent">>
FromOptions(f) == Obj([k \in {j \in DOMAIN f : f[j] # Absent} |-> f[k]])

RawPayloads ==
    {FromOptions(f) : f \in
        [success : {Absent, Bool(TRUE), Bool(FALSE)},
         summary : {Absent, Null, Str(""), Str("Team A won 2-1")},
         answer : {Absent, Str("Draw 0-0")},
         highlights : {Absent, Str("none"), Arr(<<>>), Arr(<<Str("Goal highlight")>>),
                       Arr(<<Obj([title |-> Str("Clip")]), Str("Late save")>>)},
         sources : {Absent, Null, Arr(<<Str("https://example.com/a")>>)},
         error : {Absent, Str("memory limit exceeded")}]}
    \cup {Undef, Null, Num(7), Bool(TRUE)}

InitNorm ==
    /\ version = "page"
    /\ workload = "none"
    /\ mounted = TRUE
    /\ apiData = Null
    /\ loading = FALSE
    /\ error = Null
    /\ thinking = <<>>
    /\ streamActive = FALSE
    /\ abortController = 0
    /\ sess = <<>>
    /\ fnIn \in RawPayloads /\ fnOut = Undef /\ fnPc = "input"

NormalizeOnce ==
    /\ fnPc = "input"
    /\ fnOut' = normalizeResponse(fnIn)
    /\ fnPc' = "once"
    /\ UNCHANGED <<version, mounted, apiData, loading, error, thinking, streamActive,
                   abortController, sess, workload, fnIn>>

NormalizeAgain ==
    /\ fnPc = "once"
    /\ fnOut' = normalizeResponse(fnOut)
    /\ fnPc' = "twice"
    /\ UNCHANGED <<version, mounted, apiData, loading, error, thinking, streamActive,
                   abortController, sess, workload, fnIn>>

NextNorm == NormalizeOnce \/ NormalizeAgain

SpecNorm == InitNorm /\ [][NextNorm]_vars

(***************************************************************************)
(* Properties                                                              *)
(***************************************************************************)
Latest == Len(sess)
NoState == [apiData |-> Null, thinking |-> <<>>]
Min(a, b) == IF a <= b THEN a ELSE b

\* the whole units session record r has received, terminators removed
UnitsReceived(r) ==
    LET parts == Split(r.received, r.term)
    IN  SubSeq(parts, 1, Len(parts) - 1)

\* C1: session isolation.  Once a later session has been submitted, no step
\* of an earlier session changes the progress log or the held result, and the
\* log and result are those produced by the records of the latest session
\* alone.
C1_SessionIsolation ==
    (mounted /\ sess # <<>>) => State = Reduce(NoState, sess[Latest].applied)

\* C2: bounded log.  The log never exceeds 12 entries; after N progress
\* records of one session it holds exactly min(N, 12) entries, the most
\* recent ones in arrival order.
C2_BoundedLog ==
    /\ Len(thinking) <= 12
    /\ (workload = "log" /\ mounted /\ sess # <<>>) =>
          LET N == sess[1].units
              K == Min(N, 12)
          IN  /\ Len(thinking) = K
              /\ \A i \in 1..K :
                    thinking[i] = Obj([stage |-> Str("step"),
                                       message |-> Str(TickNames[N - K + i]),
                                       status |-> Str("info")])

\* C2 witness: a thirteenth progress record has pushed the first one out
C2_Witness ==
    /\ sess # <<>> /\ sess[1].units = 13
    /\ Len(thinking) = 12
    /\ Get(thinking[1], "message") = Str("t02")

\* what reading the bytes as one chunk and then the end of the stream does
\* in page.tsx
OneShotPage(bytes) ==
    LET d == Decode(NoPending, bytes)
        lines == Split(d.text, <<NL>>)
        tail == lines[Len(lines)]
    IN  Effective(LineEvents(SubSeq(lines, 1, Len(lines) - 1))
                  \o (IF Trim(tail) # <<>> THEN LineEvents(Split(tail, <<NL>>))
                      ELSE <<>>))

\* C3: chunk-invariance.  Whatever the partition of a stream into chunks, the
\* read loop of page.tsx has, when the stream closes, applied the sequence of
\* events it applies when the stream arrives as one chunk.
C3_ChunkInvariance ==
    \A s \in Sessions :
        (version = "page" /\ sess[s].outcome = "closed")
            => sess[s].applied = OneShotPage(sess[s].received)

\* C3 witness: a closed stream of page.tsx with two applied events, read in
\* chunks of which one ended inside a unit
C3_Witness ==
    \E s \in Sessions :
        /\ version = "page" /\ sess[s].outcome = "closed"
        /\ sess[s].cut /\ Len(sess[s].applied) = 2

ValidBodies == {"P1", "P2", "R1", "R2", "RF"}

\* the events a sequence of whole units has to produce: one per well-formed
\* record, none for any other unit
RECURSIVE ExpectedEvents(_, _)
ExpectedEvents(units, withFallback) ==
    IF units = <<>> THEN <<>>
    ELSE (IF \E b \in ValidBodies : Head(units) = Record(b)
          THEN <<ClassifyParsed(JsonObject(Head(units)[8]), withFallback)>>
          ELSE <<>>)
         \o ExpectedEvents(Tail(units), withFallback)

\* session s receives the record with the malformed payload in this step
MalformedStep(s) ==
    sess'[s].received = sess[s].received \o CutRecord \o sess[s].term

\* C4: resilience to malformed frames.  A record whose payload does not parse
\* changes neither log, result, error message nor flags and leaves the session
\* reading; the events applied are exactly those of the well-formed records
\* received, in order, whatever malformed records lie between them.
C4_MalformedSkipped ==
    /\ [](\A s \in Sessions :
            sess[s].applied
                = ExpectedEvents(UnitsReceived(sess[s]), version = "page"))
    /\ [][\A s \in Sessions :
            MalformedStep(s) =>
                /\ UNCHANGED <<thinking, apiData, error, loading, streamActive>>
                /\ sess'[s].pc = "read"]_vars

\* C4 witness: one malformed record between two valid ones, two events applied
C4_Witness ==
    \E s \in Sessions :
        /\ UnitsReceived(sess[s]) = <<Record("P1"), CutRecord, Record("R1")>>
        /\ Len(sess[s].applied) = 2
        /\ sess[s].applied[1].kind = "progress" /\ sess[s].applied[2].kind = "result"

\* the latest session of page.tsx closed normally and never received a result
ClosedWithoutResult ==
    /\ version = "page" /\ mounted /\ sess # <<>>
    /\ sess[Latest].outcome = "closed"
    /\ ~HasResult(sess[Latest].applied)

\* C5 as claimed: a stream that ends without a result and without
\* cancellation finishes as Errored with the no-live-updates message.
C5_Original == ClosedWithoutResult => error = Str(NoLiveUpdates)

\* C5: in page.tsx a stream that closes without a result and without
\* cancellation ends the session with loading and streamActive cleared, no
\* result held and no error message.
C5_ClosedWithoutResult ==
    ClosedWithoutResult =>
        /\ error = Null /\ apiData = Null
        /\ ~loading /\ ~streamActive

\* C5 witness: the stream ended after a progress record and the sentinel
C5_Witness ==
    /\ ClosedWithoutResult
    /\ UnitsReceived(sess[Latest]) = <<Record("P1"), SentinelLine>>
    /\ error = Null

\* C6: cancellation.  A session whose controller was aborted while it was
\* awaiting fetch or a read ends as cancelled, never as failed, and its end
\* leaves the error message as it was.
C6_Cancellation ==
    [][\A s \in Sessions :
          (Live(s) /\ sess[s].aborted /\ sess'[s].pc = "done")
              => (sess'[s].outcome = "cancelled" /\ error' = error)]_vars

\* C6 witness: one session cancelled in mid-stream by the next submission,
\* that one cancelled by teardown, and no error message
C6_Witness ==
    /\ Len(sess) = 2 /\ ~mounted /\ error = Null
    /\ sess[1].outcome = "cancelled" /\ sess[1].received # <<>>
    /\ sess[2].outcome = "cancelled"

\* the latest session has received a successful result, then the sentinel
ResultThenSentinel ==
    /\ version = "page" /\ mounted /\ sess # <<>>
    /\ UnitsReceived(sess[Latest]) = <<Record("R1"), SentinelLine>>

\* C7 as claimed: after a successful result and the sentinel the session is
\* completed, whether or not the transport has closed.
C7_Original == ResultThenSentinel => (~loading /\ ~streamActive /\ error = Null)

\* session s receives the sentinel record in this step
SentinelStep(s) ==
    sess'[s].received = sess[s].received \o SentinelLine \o sess[s].term
\* the stream of session s closes normally in this step
CloseStep(s) == sess[s].pc = "read" /\ sess'[s].outcome = "closed"

\* C7: the sentinel does not end the session.  Receiving it changes neither
\* flags, error message, log nor result and leaves the session reading; the
\* session is completed by the close of the transport, which clears loading
\* and streamActive and leaves the error message as it was.
C7_SentinelIgnored ==
    [][\A s \in Sessions :
          /\ SentinelStep(s) =>
                /\ UNCHANGED <<thinking, apiData, error, loading, streamActive>>
                /\ sess'[s].pc = "read"
          /\ (CloseStep(s) /\ mounted) =>
                (~loading' /\ ~streamActive' /\ error' = error)]_vars

\* C7 witness: result, sentinel, then the close that completes the session
C7_Witness ==
    /\ ResultThenSentinel
    /\ sess[Latest].outcome = "closed"
    /\ ~loading /\ ~streamActive /\ error = Null
    /\ Get(apiData, "success") = Bool(TRUE)

\* the result records among the whole units session record r has received
ResultsReceived(r) ==
    SelectSeq(UnitsReceived(r),
              LAMBDA u : u \in {Record("R1"), Record("R2"), Record("RF")})

\* what has to be held after each result record of the model, written out
HeldAfter(unit) ==
    CASE unit = Record("R1") -> Obj(ScenarioResult)
      [] unit = Record("R2") ->
            Obj([answer |-> Str("Draw 0-0"), intent |-> Str("match"),
                 summary |-> Str("Draw 0-0"),
                 highlights |-> Arr(<<Obj([title |-> Str("Clip"),
                                           url |-> Str("https://youtu.be/x")]),
                                      Str("Late save")>>),
                 sources |-> Arr(<<>>)])
      [] unit = Record("RF") ->
            IF version = "page"
            THEN Obj([success |-> Bool(FALSE), summary |-> Null,
                      highlights |-> Arr(<<>>), sources |-> Arr(<<>>),
                      error |-> Str(FallbackError)])
            ELSE Obj([success |-> Bool(FALSE), summary |-> Null,
                      highlights |-> Arr(<<>>), sources |-> Arr(<<>>)])

\* C8: last-result-wins.  The held result is null until a result record
\* arrives and is then the normalization of the latest result record alone:
\* no field of an earlier result survives.
C8_LastResultWins ==
    (workload = "records" /\ mounted /\ sess # <<>>) =>
        LET results == ResultsReceived(sess[1])
        IN  apiData = IF results = <<>> THEN Null
                      ELSE HeldAfter(results[Len(results)])

\* C8 witness: two result records in one session; the second carries neither
\* success nor sources, and the held result has lost both
C8_Witness ==
    /\ workload = "records" /\ mounted /\ sess # <<>>
    /\ UnitsReceived(sess[1]) = <<Record("R1"), Record("R2")>>
    /\ apiData # Null
    /\ Get(apiData, "success") = Undef
    /\ Get(apiData, "sources") = Arr(<<>>)

\* C9: normalization is idempotent: normalizing the output of
\* normalizeResponse again returns an equal value.
C9_Idempotent ==
    [][(fnPc = "once" /\ fnPc' = "twice") => fnOut' = fnOut]_vars

\* C9 witness: a payload that was not in normal form (no summary, highlights
\* not an array) has been normalized twice
C9_Witness ==
    /\ fnPc = "twice"
    /\ Get(fnIn, "summary") = Undef /\ Get(fnIn, "answer") = Str("Draw 0-0")
    /\ Get(fnIn, "highlights") = Str("none")
    /\ Get(fnOut, "summary") = Str("Draw 0-0")

\* the highlights of the held result
HeldHighlights == Get(apiData, "highlights")[2]

\* C10 as claimed: the held result never contains a bare-string highlight.
C10_Original ==
    apiData # Null => \A i \in 1..Len(HeldHighlights) : ~IsStr(HeldHighlights[i])

\* C10: the held result keeps the highlights of the latest result record as
\* they arrived; the highlight cards derived from it hold, for each bare
\* string, the object {title: string} and every object unchanged, and never a
\* bare string.
C10_HighlightCards ==
    (workload = "records" /\ mounted /\ apiData # Null) =>
        LET results == ResultsReceived(sess[1])
            raw == Get(Get(JsonObject(results[Len(results)][8]), "data"), "highlights")
            arrived == IF IsArr(raw) THEN raw[2] ELSE <<>>
            cards == highlightCards(apiData)
        IN  /\ HeldHighlights = arrived
            /\ Len(cards) = Len(arrived)
            /\ \A i \in 1..Len(arrived) :
                  /\ ~IsStr(cards[i])
                  /\ cards[i] = IF IsStr(arrived[i])
                                THEN Obj([title |-> arrived[i]]) ELSE arrived[i]

\* C10 witness: the held result has an object highlight and a bare string
C10_Witness ==
    /\ workload = "records" /\ mounted /\ apiData # Null
    /\ Len(HeldHighlights) = 2
    /\ IsObj(HeldHighlights[1]) /\ IsStr(HeldHighlights[2])
    /\ highlightCards(apiData)[2] = Obj([title |-> Str("Late save")])

\* the payload carried by a record unit of the model
PayloadOf(unit) == JsonObject(unit[8])

\* the bodies of the "payloads" workload whose type is "result"
PayloadResults == {"R0", "R1", "R3", "RF", "RS", "RE", "RT"}

\* the data of the latest result record received by the first session, and
\* whether there is one
ResultUnits == SelectSeq(UnitsReceived(sess[1]), LAMBDA u : u[8] \in PayloadResults)
LatestData == Get(PayloadOf(ResultUnits[Len(ResultUnits)]), "data")

\* C11: whenever a result is held, its highlights and its sources are arrays:
\* the array of the latest result record where that record carries one, the
\* empty array where the field is missing or not an array or the record has no
\* data object.
C11_ArraysAlways ==
    /\ apiData # Null =>
          (IsArr(Get(apiData, "highlights")) /\ IsArr(Get(apiData, "sources")))
    /\ (workload = "payloads" /\ mounted /\ sess # <<>> /\ ResultUnits # <<>>) =>
          /\ apiData # Null
          /\ Get(apiData, "highlights")
                = IF IsArr(OptGet(LatestData, "highlights"))
                  THEN Get(LatestData, "highlights") ELSE Arr(<<>>)
          /\ Get(apiData, "sources")
                = IF IsArr(OptGet(LatestData, "sources"))
                  THEN Get(LatestData, "sources") ELSE Arr(<<>>)

\* C11 witness: a result without data object, then one whose highlights are a
\* string and whose sources are null; both fields are held as empty arrays
C11_Witness ==
    /\ workload = "payloads" /\ mounted /\ sess # <<>>
    /\ UnitsReceived(sess[1]) = <<Record("R0"), Record("R3")>>
    /\ Get(apiData, "summary") = Str("No clips")
    /\ Get(apiData, "highlights") = Arr(<<>>)
    /\ Get(apiData, "sources") = Arr(<<>>)

\* C12: the summary of the normalized result is the summary of the payload
\* when the payload has one (any value but null or undefined, the empty string
\* included), else its answer when it has one, else no value (null).
C12_SummaryPrecedence ==
    fnPc = "once" =>
        LET primary == OptGet(fnIn, "summary")
            alias == OptGet(fnIn, "answer")
        IN  Get(fnOut, "summary")
                = IF ~IsNullish(primary) THEN primary
                  ELSE IF ~IsNullish(alias) THEN alias
                  ELSE Null

\* C12 witness: a payload with an empty summary and an answer keeps the empty
\* summary
C12_Witness ==
    /\ fnPc = "once"
    /\ Get(fnIn, "summary") = Str("") /\ Get(fnIn, "answer") = Str("Draw 0-0")
    /\ Get(fnOut, "summary") = Str("")

\* session s receives the record with body b in this step
ReceivesBody(s, b) ==
    sess'[s].received = sess[s].received \o Record(b) \o sess[s].term

\* field k of a progress payload as claimed: the top-level property when the
\* payload has it, else the property of data when data has it, else the default
ClaimedField(parsed, k, default) ==
    IF k \in DOMAIN parsed[2] THEN parsed[2][k]
    ELSE IF IsObj(Get(parsed, "data")) /\ k \in DOMAIN Get(parsed, "data")[2]
    THEN Get(parsed, "data")[2][k]
    ELSE default
ClaimedEvent(parsed) ==
    Obj([stage |-> ClaimedField(parsed, "stage", Str("thinking")),
         message |-> ClaimedField(parsed, "message", Str("")),
         status |-> ClaimedField(parsed, "status", Str("info"))])

\* C13: field precedence of a progress event.  The entry appended to the log
\* for a payload has, for each of stage, message and status, the top-level
\* value whenever the field is present at the top level (whatever its value),
\* otherwise the nested value if present, otherwise the default.
C13_FieldPrecedence ==
    [][\A s \in Sessions : \A b \in PayloadBodies :
          (ReceivesBody(s, b) /\ Len(thinking') = Len(thinking) + 1)
              => thinking'[Len(thinking')] = ClaimedEvent(JsonObject(b))]_vars

\* the kind of a parsed payload as claimed
ClaimedKind(parsed) ==
    IF Get(parsed, "type") = Str("result") THEN "result"
    ELSE IF \/ Get(parsed, "type") = Str("thinking")
            \/ "stage" \in DOMAIN parsed[2]
            \/ (IsObj(Get(parsed, "data")) /\ "stage" \in DOMAIN Get(parsed, "data")[2])
    THEN "progress"
    ELSE "none"

\* C14: event kind in processSSELine of page.tsx.  A payload of type "result"
\* replaces the held result and leaves the log alone, even when it carries a
\* stage; any other payload is
\* appended to the log exactly when its type is "thinking" or a stage field is
\* present at the top level or inside data; every other payload changes no
\* state.
C14_EventKind ==
    [][\A s \in Sessions : \A b \in PayloadBodies :
          (version = "page" /\ mounted /\ ReceivesBody(s, b)) =>
              CASE ClaimedKind(JsonObject(b)) = "result" ->
                       apiData' # Null /\ thinking' = thinking
                [] ClaimedKind(JsonObject(b)) = "progress" ->
                       Len(thinking') = Len(thinking) + 1 /\ apiData' = apiData
                [] OTHER ->
                       UNCHANGED <<thinking, apiData, error, loading, streamActive>>]_vars

\* the sessions whose transport is open and has not been cancelled
OpenTransports == {s \in Sessions : Live(s) /\ ~sess[s].aborted}

\* C15: at most one active stream.  At no time do two transports exist that
\* are open and not cancelled: a submission cancels the transport of the
\* previous session before it starts its own.
C15_OneActiveStream == Cardinality(OpenTransports) <= 1

\* a submission happens in this step
SubmitStep == Len(sess') = Len(sess) + 1

\* C16: every submission starts a fresh streaming state.  Right after it the
\* log is empty, the held result and the error message are null and both
\* flags are set, whatever the previous session left behind, and the new
\* session has received and applied nothing yet.
C16_FreshStart ==
    [][SubmitStep =>
          /\ thinking' = <<>> /\ apiData' = Null /\ error' = Null
          /\ loading' /\ streamActive'
          /\ sess'[Len(sess')].received = <<>>
          /\ sess'[Len(sess')].applied = <<>>]_vars

\* C16 witness: the first session held a result and ended with an error
\* message; the second submission has just cleared both
C16_Witness ==
    /\ Len(sess) = 2
    /\ sess[1].outcome = "failed" /\ HasResult(sess[1].applied)
    /\ sess[2].pc = "fetch"
    /\ thinking = <<>> /\ apiData = Null /\ error = Null
    /\ loading /\ streamActive

\* C17: application failure message.  When the latest result record has
\* success false, the held result carries the error message of the backend
\* when the record has one and the generic fallback message when it has none;
\* a result whose success is not false has the error of its record and never
\* the fallback.
C17_FailureMessage ==
    (workload = "payloads" /\ mounted /\ sess # <<>> /\ ResultUnits # <<>>) =>
        Get(apiData, "error")
            = IF OptGet(LatestData, "success") = Bool(FALSE)
                 /\ ~Truthy(OptGet(LatestData, "error"))
              THEN Str(FallbackError)
              ELSE OptGet(LatestData, "error")

\* event e holds a result with success false
IsFailure(e) == e.kind = "result" /\ Get(e.val, "success") = Bool(FALSE)
\* session s of page.tsx has applied a result with success false
FailureApplied(s) ==
    /\ version = "page" /\ mounted
    /\ \E i \in 1..Len(sess[s].applied) : IsFailure(sess[s].applied[i])

\* C18 as claimed: once a result with success false has been applied the
\* session is over: it is no longer loading or streaming.
C18_Original ==
    \A s \in Sessions : FailureApplied(s) => (~loading /\ ~streamActive)

\* the log entry of the first progress record of the scenario
FetchEntry ==
    Obj([stage |-> Str("fetch"), message |-> Str("Searching"),
         status |-> Str("starting")])

\* C18: a result with success false does not end the session of page.tsx.
\* Receiving it replaces the held result by the failure, with an error text,
\* and changes neither flags, error message nor log, and the session keeps
\* reading; records received after it are applied like any other (a progress
\* record is appended to the log, a result replaces the failure); the flags
\* are cleared only by the step in which the invocation returns.
C18_FailureKeepsStreaming ==
    [][\A s \in Sessions :
          /\ (version = "page" /\ mounted /\ ReceivesBody(s, "RF")) =>
                /\ apiData' = HeldAfter(Record("RF"))
                /\ UNCHANGED <<thinking, error, loading, streamActive>>
                /\ sess'[s].pc = "read"
          /\ (FailureApplied(s) /\ ReceivesBody(s, "P1")) =>
                /\ thinking' = Append(thinking, FetchEntry)
                /\ UNCHANGED <<apiData, error, loading, streamActive>>
          /\ (FailureApplied(s) /\ ReceivesBody(s, "R1")) =>
                /\ apiData' = Obj(ScenarioResult)
                /\ UNCHANGED <<thinking, error, loading, streamActive>>
          /\ (FailureApplied(s) /\ sess[s].pc = "read" /\ ~streamActive')
                => sess'[s].pc = "done"]_vars

\* C18 witness: a progress record applied after the failure result, the
\* session still streaming
C18_Witness ==
    /\ sess # <<>> /\ FailureApplied(1)
    /\ UnitsReceived(sess[1]) = <<Record("RF"), Record("P1")>>
    /\ sess[1].pc = "read"
    /\ Get(apiData, "error") = Str(FallbackError)
    /\ thinking = <<FetchEntry>>
    /\ loading /\ streamActive

\* the error message of the catch block of the mounted component
GenericMessage == Str(IF version = "page" THEN NoLiveUpdates ELSE CouldNotReach)

\* C19: a transport failure (a status that is not ok, a missing body, a
\* rejected fetch or read), before or during streaming, ends the session as
\* failed: the step sets the generic error message and clears loading and
\* streamActive, leaving log and result alone.  The outcome differs from a
\* cancellation: a failed session was never cancelled, and a session of
\* page.tsx that ended cancelled as the latest one leaves no error message.
C19_TransportFailure ==
    /\ [][\A s \in Sessions :
            (mounted /\ Live(s) /\ sess'[s].outcome = "failed") =>
                /\ error' = GenericMessage
                /\ ~loading' /\ ~streamActive'
                /\ UNCHANGED <<apiData, thinking>>
                /\ (version = "page" => ~sess[s].aborted)]_vars
    /\ []((version = "page" /\ sess # <<>> /\ sess[Latest].outcome = "cancelled")
            => error = Null)

\* C19 witness: in page.tsx one session failed in mid-stream, the next one
\* before its response arrived, and the message is shown
C19_Witness ==
    /\ version = "page" /\ mounted /\ Len(sess) = 2
    /\ sess[1].outcome = "failed" /\ sess[1].received # <<>>
    /\ sess[2].outcome = "failed" /\ sess[2].received = <<>>
    /\ error = Str(NoLiveUpdates)
    /\ ~loading /\ ~streamActive

\* the component is torn down in this step
TeardownStep == mounted /\ ~mounted'

\* C20: teardown of page.tsx cancels the transport of every session that is
\* still open, and once the component is torn down no session receives or
\* applies a record and log and result stay as they were.
C20_TeardownCancels ==
    /\ [][(version = "page" /\ TeardownStep) =>
            \A s \in Sessions : Live(s) => sess'[s].aborted]_vars
    /\ [][(version = "page" /\ ~mounted) =>
            /\ UNCHANGED <<apiData, thinking>>
            /\ \A s \in Sessions :
                  /\ sess'[s].applied = sess[s].applied
                  /\ sess'[s].received = sess[s].received]_vars

\* C20 witness: page.tsx was torn down in mid-stream; the session has ended
\* cancelled with what it had received before
C20_Witness ==
    /\ version = "page" /\ ~mounted /\ Len(sess) = 1
    /\ sess[1].aborted /\ sess[1].outcome = "cancelled"
    /\ sess[1].received # <<>>
    /\ error = Null

\* the invocation of session s returns in this step
EndStep(s) == Live(s) /\ sess'[s].pc = "done"

\* C21: guaranteed cleanup.  Every submitted session eventually returns, given
\* that its transport eventually closes, fails or is cancelled; whatever the
\* outcome (closed, failed, cancelled), the step in which it returns leaves
\* loading and streamActive both false.
C21_Cleanup ==
    /\ \A n \in 1..MaxSubmits :
          (Len(sess) >= n) ~> (Len(sess) >= n /\ sess[n].pc = "done")
    /\ [][\A s \in Sessions :
            (mounted /\ EndStep(s)) =>
                /\ sess'[s].outcome \in {"closed", "failed", "cancelled"}
                /\ ~loading' /\ ~streamActive']_vars

\* C21 witness: one session of page.tsx ended cancelled, the next one closed
\* normally, and both flags are false
C21_Witness ==
    /\ version = "page" /\ mounted /\ Len(sess) = 2
    /\ sess[1].outcome = "cancelled" /\ sess[2].outcome = "closed"
    /\ ~loading /\ ~streamActive

\* C22: cancellation is immediate.  Once the controller of a session of
\* page.tsx is aborted the session receives no further chunk and applies no
\* further record, and its return, as cancelled, leaves log and result
\* alone: the carry-over buffer is not flushed.
C22_ImmediateCancel ==
    [][\A s \in Sessions :
          (version = "page" /\ sess[s].aborted) =>
              /\ sess'[s].applied = sess[s].applied
              /\ sess'[s].received = sess[s].received
              /\ EndStep(s) =>
                    /\ sess'[s].outcome = "cancelled"
                    /\ UNCHANGED <<apiData, thinking>>]_vars

\* C22 witness: a session cancelled by the next submission while its buffer
\* held an unterminated progress record, which was never applied
C22_Witness ==
    /\ version = "page" /\ mounted /\ Len(sess) = 2
    /\ sess[1].outcome = "cancelled"
    /\ sess[1].buffer = Record("P1") /\ sess[1].applied = <<>>
    /\ thinking = <<>>

\* C23: single mutator.  While the latest session of page.tsx is open and not
\* cancelled, loading and streamActive are both true: nothing a superseded
\* session does, its termination handler included, clears them.
C23_SingleMutator ==
    (version = "page" /\ mounted /\ sess # <<>>
        /\ Live(Latest) /\ ~sess[Latest].aborted)
            => (loading /\ streamActive)

\* session s receives the unit made of item u in this step
ReceivesUnit(s, u) == sess'[s].received = sess[s].received \o u \o sess[s].term

\* the records the handler of page.tsx returns on at once
IgnoredRecords == {EmptyRecord, BlankRecord, SentinelLine}
\* the unit session s received last is such a record
AfterIgnored(s) ==
    /\ UnitsReceived(sess[s]) # <<>>
    /\ UnitsReceived(sess[s])[Len(UnitsReceived(sess[s]))] \in IgnoredRecords

\* C24: a record that is empty or only white space, and the sentinel record,
\* are ignored by page.tsx without error: the step that receives one changes
\* neither log, result, error message nor flags and the session keeps
\* reading; the record received next is applied as usual.
C24_IgnoredRecords ==
    [][\A s \in Sessions :
          (version = "page" /\ mounted) =>
              /\ (\E u \in IgnoredRecords : ReceivesUnit(s, u)) =>
                    /\ UNCHANGED <<thinking, apiData, error, loading, streamActive>>
                    /\ sess'[s].pc = "read"
              /\ (AfterIgnored(s) /\ ReceivesBody(s, "P1")) =>
                    /\ thinking' = Append(thinking, FetchEntry)
                    /\ UNCHANGED <<apiData, error>>
              /\ (AfterIgnored(s) /\ ReceivesBody(s, "R1")) =>
                    /\ apiData' = Obj(ScenarioResult)
                    /\ UNCHANGED <<thinking, error>>]_vars

\* C24 witness: a white-space record and the sentinel, then a progress record
\* that is logged
C24_Witness ==
    /\ version = "page" /\ mounted /\ sess # <<>>
    /\ UnitsReceived(sess[1]) = <<BlankRecord, SentinelLine, Record("P1")>>
    /\ thinking = <<FetchEntry>>
    /\ apiData = Null /\ error = Null

\* the text of all the bytes session record r has received
TextReceived(r) == Decode(NoPending, r.received).text

\* text q holds no line terminator
NoTerminator(q) == \A i \in 1..Len(q) : q[i] # NL

\* C25: decoder buffer invariant.  While a session of page.tsx is reading, its
\* carry-over buffer is exactly the text received so far that follows the last
\* line terminator (all the text when there is none), and the events applied
\* are those of the lines before it, each once and in order: nothing received
\* is lost, duplicated or reordered.
C25_BufferInvariant ==
    \A s \in Sessions :
        (version = "page" /\ sess[s].pc = "read") =>
            LET text == TextReceived(sess[s])
                buffer == sess[s].buffer
                before == Len(text) - Len(buffer)
            IN  /\ NoTerminator(buffer)
                /\ before >= 0
                /\ SubSeq(text, before + 1, Len(text)) = buffer
                /\ before > 0 => text[before] = NL
                /\ sess[s].applied
                      = Effective(LineEvents(Split(SubSeq(text, 1, before - 1),
                                                   <<NL>>)))

\* C25 witness: a chunk ended inside a record after a whole record had been
\* applied, and the buffer holds the beginning of the second record
C25_Witness ==
    \E s \in Sessions :
        /\ version = "page" /\ sess[s].pc = "read"
        /\ sess[s].cut /\ Len(sess[s].applied) = 1
        /\ sess[s].buffer # <<>> /\ sess[s].rest # <<>>

\* the well-formed records of the "frames" workload, as bytes
FrameRecords == {Record("P1"), Record("R1"), QuoteRecord}

\* the units of a body framed by blank lines, the unterminated last one included
FramedUnits(r) == Split(r.received, <<NL, NL>>)

\* C26: flush at stream end.  When a stream framed by blank lines closes
\* normally while its last record is unterminated, that record is applied,
\* exactly once, before the session ends: the session has then applied one
\* event for every well-formed record of the stream, the last one being that
\* of the unterminated record.  In both versions of the loop.
C26_FlushAtEnd ==
    \A s \in Sessions :
        (/\ sess[s].outcome = "closed" /\ sess[s].term = <<NL, NL>>
         /\ sess[s].final
         /\ FramedUnits(sess[s])[Len(FramedUnits(sess[s]))] \in FrameRecords)
            => Len(sess[s].applied)
                  = Len(SelectSeq(FramedUnits(sess[s]), LAMBDA u : u \in FrameRecords))

\* the terminated lines of a text, in order
CompleteLines(text) ==
    LET lines == Split(text, <<NL>>) IN SubSeq(lines, 1, Len(lines) - 1)

\* the events of the records among some lines, first line first
RECURSIVE InStreamOrder(_)
InStreamOrder(lines) ==
    IF lines = <<>> THEN <<>>
    ELSE (IF StartsWith(Head(lines), Prefix)
          THEN <<processSSELine(Drop(Head(lines), Len(Prefix)))>> ELSE <<>>)
         \o InStreamOrder(Tail(lines))

\* the bytes session s receives in this step
ChunkRead(s) == SubSeq(sess'[s].received, Len(sess[s].received) + 1, Len(sess'[s].received))

\* C27: sequential reads, ordered application.  A session of page.tsx awaits
\* one read at a time; the step in which a read resolves takes one chunk and
\* applies, before the next read is awaited, the events of exactly the lines
\* that the chunk completed (the carried-over text included), in the order in
\* which they occur in the stream, after all those applied before.
C27_OrderedApplication ==
    [][\A s \in Sessions :
          (version = "page" /\ sess[s].pc = "read"
              /\ sess'[s].received # sess[s].received) =>
                LET text == sess[s].buffer \o Decode(sess[s].pend, ChunkRead(s)).text
                    events == Effective(InStreamOrder(CompleteLines(text)))
                IN  /\ sess'[s].received = sess[s].received \o ChunkRead(s)
                    /\ sess'[s].applied = sess[s].applied \o events
                    /\ mounted => State' = Reduce(State, events)
                    /\ sess'[s].pc = "read"]_vars

\* C27 witness: a chunk with two progress records after a logged record; both
\* were logged in the order of the stream before the next read
C27_Witness ==
    /\ version = "page" /\ mounted /\ sess # <<>> /\ sess[1].pc = "read"
    /\ UnitsReceived(sess[1]) = <<Record("P1"), TwoRecords>>
    /\ Len(sess[1].applied) = 3
    /\ thinking = <<FetchEntry, FetchEntry,
                    Obj([stage |-> Str("plan"), message |-> Str("Planning"),
                         status |-> Str("done")])>>

\* C28: memory wording of a transport error.  When the latest submission of
\* page.tsx failed in transport and the message of the thrown error contains
\* the memory indicator, the error is shown with the memory wording and not
\* with the generic one.
C28_MemoryWording ==
    (/\ version = "page" /\ mounted /\ sess # <<>>
     /\ sess[Latest].outcome = "failed"
     /\ HasMemory(sess[Latest].thrown))
        => ErrorBanner = "memory"

\* the object that carries the result fields of a result payload: its data
\* object when it has one, else the payload itself
ResultCarrier(parsed) ==
    IF IsObj(Get(parsed, "data")) THEN Get(parsed, "data") ELSE parsed

\* C29: a result record of page.tsx is honoured at both levels.  After a
\* result record is applied, the held result has the success, summary and
\* error of the object that carries the result fields, nested under data or at
\* the top level, and its highlights and sources where these are arrays.
C29_ResultAtBothLevels ==
    [][\A s \in Sessions : \A b \in PayloadResults :
          (version = "page" /\ mounted /\ ReceivesBody(s, b)) =>
              LET carrier == ResultCarrier(JsonObject(b)) IN
              /\ \A k \in {"success", "summary", "error"} \cap DOMAIN carrier[2] :
                    Get(apiData', k) = carrier[2][k]
              /\ \A k \in {"highlights", "sources"} \cap DOMAIN carrier[2] :
                    IsArr(carrier[2][k]) => Get(apiData', k) = carrier[2][k]]_vars

\* the units of the "lines" workload that hold no record: a blank line, a
\* comment, another field and, for page.tsx, the prefix without its space
DroppedLines ==
    {BlankLine, CommentLine, FieldLine}
        \cup (IF version = "page" THEN {NoSpaceRecord} ELSE {})
\* the unit session s received last holds no record
AfterDropped(s) ==
    /\ UnitsReceived(sess[s]) # <<>>
    /\ UnitsReceived(sess[s])[Len(UnitsReceived(sess[s]))] \in DroppedLines

\* C30: only a line that begins with the data prefix is a record.  The step
\* that receives a blank line, a comment line, a line of another field or (in
\* page.tsx) the prefix without its space changes neither log, result, error
\* message nor flags, and the records around such a line are applied as
\* usual: the record that follows it in the same unit and the record received
\* next.
C30_OnlyPrefixedLines ==
    [][\A s \in Sessions :
          mounted =>
              /\ (\E u \in DroppedLines : ReceivesUnit(s, u)) =>
                    /\ UNCHANGED <<thinking, apiData, error, loading, streamActive>>
                    /\ sess'[s].pc = "read"
              /\ ReceivesUnit(s, FieldThenRecord) =>
                    /\ thinking' = Append(thinking, FetchEntry)
                    /\ UNCHANGED <<apiData, error, loading, streamActive>>
              /\ (AfterDropped(s) /\ ReceivesBody(s, "P1")) =>
                    /\ thinking' = Append(thinking, FetchEntry)
                    /\ UNCHANGED <<apiData, error>>
              /\ (AfterDropped(s) /\ ReceivesBody(s, "R1")) =>
                    /\ apiData' = Obj(ScenarioResult)
                    /\ UNCHANGED <<thinking, error>>]_vars

\* the records of the "values" workload whose payload parses to a value that
\* is not an object
NonObjectRecords == {NullRecord, NumberRecord, StringRecord, BooleanRecord, ArrayRecord}
\* the unit session s received last is such a record
AfterNonObject(s) ==
    /\ UnitsReceived(sess[s]) # <<>>
    /\ UnitsReceived(sess[s])[Len(UnitsReceived(sess[s]))] \in NonObjectRecords

\* C31: a payload that parses to null, a number, a string, a boolean or an
\* array is ignored by page.tsx: the step that receives it changes neither
\* log, result, error message nor flags, the session keeps reading with no
\* failure recorded, and the record received next is applied as usual.
C31_NonObjectIgnored ==
    [][\A s \in Sessions :
          (version = "page" /\ mounted) =>
              /\ (\E u \in NonObjectRecords : ReceivesUnit(s, u)) =>
                    /\ UNCHANGED <<thinking, apiData, error, loading, streamActive>>
                    /\ sess'[s].applied = sess[s].applied
                    /\ sess'[s].pc = "read" /\ sess'[s].outcome = "pending"
              /\ (AfterNonObject(s) /\ ReceivesBody(s, "P1")) =>
                    /\ thinking' = Append(thinking, FetchEntry)
                    /\ UNCHANGED <<apiData, error>>
              /\ (AfterNonObject(s) /\ ReceivesBody(s, "R1")) =>
                    /\ apiData' = Obj(ScenarioResult)
                    /\ UNCHANGED <<thinking, error>>]_vars

\* C31 witness: null and an array were received and ignored, then a progress
\* record was logged
C31_Witness ==
    /\ version = "page" /\ mounted /\ sess # <<>> /\ sess[1].pc = "read"
    /\ UnitsReceived(sess[1]) = <<NullRecord, ArrayRecord, Record("P1")>>
    /\ thinking = <<FetchEntry>>
    /\ apiData = Null /\ error = Null /\ loading /\ streamActive

\* session s applies exactly one event in this step, of kind k
AppliesOne(s, k) ==
    /\ Len(sess'[s].applied) = Len(sess[s].applied) + 1
    /\ sess'[s].applied[Len(sess'[s].applied)].kind = k
\* the value of the event session s applies in this step
AppliedVal(s) == sess'[s].applied[Len(sess'[s].applied)].val

\* C32: the two kinds of event touch disjoint parts of the state, in both
\* versions.  A step that applies a progress event appends it to the log and
\* leaves the held result and the error message unchanged, also when a result
\* is already held; a step that applies a result event replaces the held
\* result and leaves the log and the error message unchanged.
C32_DisjointEffects ==
    [][\A s \in Sessions :
          mounted =>
              /\ AppliesOne(s, "progress") =>
                    /\ thinking' = LastOf(Append(thinking, AppliedVal(s)), LogCap)
                    /\ apiData' = apiData /\ error' = error
              /\ AppliesOne(s, "result") =>
                    /\ apiData' = AppliedVal(s)
                    /\ thinking' = thinking /\ error' = error]_vars

\* C32 witness: a progress record, a result, then another progress record; the
\* log holds both entries and the result is still held
C32_Witness ==
    /\ mounted /\ sess # <<>> /\ sess[1].pc = "read"
    /\ UnitsReceived(sess[1]) = <<Record("P1"), Record("R1"), Record("P1")>>
    /\ thinking = <<FetchEntry, FetchEntry>>
    /\ apiData = Obj(ScenarioResult) /\ error = Null

\* the events session s applies in this step
AppliedNow(s) ==
    SubSeq(sess'[s].applied, Len(sess[s].applied) + 1, Len(sess'[s].applied))

\* C33: the end of a session keeps what the records left, in both versions.
\* In the step in which a session returns, closed, failed or cancelled, the
\* log and the held result are those left by the last record applied (the
\* record flushed at the close of the stream included); a transport failure
\* sets the error message on top of them, every other end leaves it alone.
C33_EndKeepsState ==
    [][\A s \in Sessions :
          (mounted /\ EndStep(s)) =>
              /\ State' = Reduce(State, AppliedNow(s))
              /\ sess'[s].outcome # "closed" => AppliedNow(s) = <<>>
              /\ error' = IF sess'[s].outcome = "failed"
                          THEN Str(IF version = "page" THEN NoLiveUpdates
                                   ELSE CouldNotReach)
                          ELSE error]_vars

\* C33 witness: a session of page.tsx held a result when its transport
\* failed; the result is still held and the error message is set
C33_Witness ==
    /\ version = "page" /\ mounted /\ Len(sess) = 1
    /\ sess[1].outcome = "failed"
    /\ UnitsReceived(sess[1]) = <<Record("R1")>>
    /\ apiData = Obj(ScenarioResult)
    /\ error = Str(NoLiveUpdates)

\* C34: the error message of page.tsx.  It is non-null only while the most
\* recent session is one that ended by a transport failure, and then it is
\* the fixed text of the catch; it becomes non-null only in the step in which
\* a session that was not cancelled fails in transport, never in a step that
\* receives a record (malformed or an unsuccessful result), ends a stream
\* normally or ends a cancelled session; once set it changes only when the
\* next submission clears it.
C34_ErrorMessage ==
    /\ [](version = "page" =>
            (error # Null =>
                /\ sess # <<>> /\ sess[Latest].outcome = "failed"
                /\ error = Str(NoLiveUpdates)))
    /\ [][version = "page" =>
            /\ (error = Null /\ error' # Null) =>
                  \E s \in Sessions :
                      /\ EndStep(s) /\ sess'[s].outcome = "failed"
                      /\ ~sess[s].aborted
            /\ (error # Null /\ error' # error) => (SubmitStep /\ error' = Null)]_vars

\* C34 witness: the first session held an unsuccessful result and failed in
\* transport; the second submission cleared the message, and its session
\* received a malformed record and closed normally: no message is set
C34_Witness ==
    /\ version = "page" /\ mounted /\ Len(sess) = 2
    /\ sess[1].outcome = "failed" /\ UnitsReceived(sess[1]) = <<Record("RE")>>
    /\ UnitsReceived(sess[2]) = <<CutRecord>>
    /\ sess[2].outcome = "closed"
    /\ error = Null

\* the log and the held result of page.tsx are empty although the latest
\* session has applied records: the reset button was pressed after the last
\* of them
ClearedByReset ==
    /\ version = "page" /\ mounted /\ sess # <<>>
    /\ sess[Latest].applied # <<>>
    /\ apiData = Null /\ thinking = <<>>

\* C35: after the reset action the log and the held result stay empty until
\* the next submission: once the button has emptied them, no step but a
\* submission changes them, in particular no record of a stream that was
\* open when the button was pressed.
C35_ResetStaysEmpty ==
    [][(ClearedByReset /\ ~SubmitStep) => (apiData' = Null /\ thinking' = <<>>)]_vars

\* the body received by session record r is well framed and holds no
\* unsuccessful result: every unit is one line "data: <payload>" followed by a
\* blank line, the last one included
WellFramedItems ==
    {Record("P1"), Record("P2"), Record("R1"), Record("R2"), CutRecord,
     SentinelLine, QuoteRecord}
WellFramed(r) ==
    /\ r.term = <<NL, NL>> /\ ~r.final /\ r.buffer = <<>>
    /\ UnitsReceived(r) # <<>>
    /\ \A i \in 1..Len(UnitsReceived(r)) : UnitsReceived(r)[i] \in WellFramedItems

\* what the loop of page.tsx makes of a whole body: the events of its lines,
\* the unterminated last line included
PageEventsOf(text) == Effective(LineEvents(Split(text, <<NL>>)))
\* what the loop of part_000 makes of a whole body: the events of its
\* messages, the unterminated last one excluded
PartEventsOf(text) ==
    LET messages == Split(text, <<NL, NL>>)
    IN  Effective(MessageEvents(SubSeq(messages, 1, Len(messages) - 1)))

\* C36: the two loops agree on well-framed input.  When the stream of a
\* session closes after a well-framed body without unsuccessful result, the
\* log and the held result each version ends with are those the loop of the
\* other version makes of the same body.
C36_VersionsAgree ==
    (/\ mounted /\ Len(sess) = 1 /\ sess[1].outcome = "closed"
     /\ WellFramed(sess[1]))
        => /\ version = "page" =>
                State = Reduce(NoState, PartEventsOf(TextReceived(sess[1])))
           /\ version = "part000" =>
                State = Reduce(NoState, PageEventsOf(TextReceived(sess[1])))

\* C36 witness: part_000 closed a session that delivered a nested progress
\* record, a malformed record and a result with the alias field
C36_Witness ==
    /\ version = "part000" /\ mounted /\ Len(sess) = 1
    /\ sess[1].outcome = "closed"
    /\ UnitsReceived(sess[1]) = <<Record("P2"), CutRecord, Record("R2")>>
    /\ WellFramed(sess[1])
    /\ Len(thinking) = 1
    /\ Get(apiData, "summary") = Str("Draw 0-0")

====
